---- MODULE Spec2Model ----
(***************************************************************************)
(* Model of the turn scheduler of Metavern: TurnManager.process_ai_responses *)
(* with the timeline store it writes to (TimelineManager.add_event), the    *)
(* per-character memories it broadcasts to and the player's message path.   *)
(*                                                                          *)
(* One call of process_ai_responses is split at the points where the code   *)
(* waits for its oracles: the meta-narrative step, select_next_speaker and  *)
(* the body of the while loop are one action each, so that a call that      *)
(* never leaves the loop is a behaviour of the model.                       *)
(***************************************************************************)
EXTENDS Integers, Sequences, FiniteSets, TLC

\* ---------------------------------------------------------------- bounds
\* longest timeline explored
MaxEvents == 4
\* largest explicit max_turns argument explored (0..MaxTurnsArg)
MaxTurnsArg == 2
\* oracle priorities are drawn from 0..MaxPriority, in units of one tenth
MaxPriority == 1
\* most movements (entries plus exits) the movement oracle returns at once
MaxMoves == 2
\* longest history (after the initial scene) of a timeline that is saved and loaded
MaxSavedSteps == 3
\* most beats of a story
MaxBeats == 3
\* largest value of StoryManager.messages_in_current_beat explored
MaxBeatMessages == 5
\* largest n passed to get_recent_events (0..MaxRecent)
MaxRecent == 3
\* most events added to a newly created timeline
MaxAdded == 3
\* most objectives of a story
MaxObjectives == 2
\* largest priority on a list handed to the selection alone, in units of one tenth
MaxSelectPriority == 4
\* most scene requests made to SceneManager and NarratorManager together
MaxSceneCalls == 7
\* longest conversation of the asynchronous variant
MaxAsyncMessages == 4
\* most responses waiting in the queue of the asynchronous variant
MaxPending == 2

\* ------------------------------------------------------ program constants
\* Config.MAX_CONSECUTIVE_AI_TURNS
MAX_CONSECUTIVE_AI_TURNS == 3
\* Config.PRIORITY_RANDOMNESS (0.1), in tenths
PRIORITY_RANDOMNESS == 1
\* the literal 2 of "if self.consecutive_silence_rounds >= 2"
SILENCE_THRESHOLD == 2
\* the literal 3 of "if count >= 3" in the chat endpoint
CHAT_MAX_RESPONSES == 3

\* ------------------------------------------------------------ the roster
Player == "P"
Characters == {"A", "B"}
None == "None"

VARIABLES
    events,                     \* timeline.events
    participants,               \* timeline.participants
    current_participants,       \* timeline.current_participants
    memory,                     \* character.memory, per AI character
    characters,                 \* TurnManager.characters
    consecutive_silence_rounds, \* TurnManager.consecutive_silence_rounds
    saved_len,                  \* number of events in the file last written by the save callback
    pc,                         \* position inside process_ai_responses
    max_turns,                  \* local of process_ai_responses
    responses,                  \* local of process_ai_responses
    consecutive_count,          \* local of process_ai_responses
    last_speaker,               \* local of process_ai_responses
    n_decisions,                \* len(decisions) collected by select_next_speaker in this round
    result,                     \* local of process_ai_responses
    call_start_len,             \* history: len(timeline.events) when the running call began
    last_round,                 \* history: how the last round of the loop ended
    outcome,                    \* how the last call ended: "none", "returned", "raised"
    judge_calls,                \* how often the last call invoked _evaluate_objectives_with_judge
    story_name,                 \* RoleplaySystem.story_name
    files,                      \* the JSON files in chat_storage_dir, by file name
    loaded,                     \* the timeline of a new RoleplaySystem after its load
    loaded_memory,              \* the memories of the new RoleplaySystem's characters after its load
    persist_pc,                 \* "start", "saved" (after _save_conversation), "loaded"
    story,                      \* StoryManager.story
    messages_in_current_beat,   \* StoryManager.messages_in_current_beat
    advance_result,             \* what the last advance call did: "none", "True", "False", "raised"
    tasks,                      \* the futures of _collect_speaking_decisions, per character
    round_decisions,            \* the decisions list while _collect_speaking_decisions fills it
    recent,                     \* the last get_recent_events call: its arguments and what it returned
    queried,                    \* the decision calls of the running collection: who was present, who was asked
    story_objectives,           \* the story of the evaluator's StoryManager: objectives and current_objective_index
    current_objective,          \* character.state.current_objective, per AI character
    judged,                     \* the last run of _evaluate_objectives_with_judge: what the judge reported
    selection,                  \* the last call of _select_speaker_from_decisions alone: its list and its result
    current_scene,              \* SceneManager.current_scene: whether it is set, and its recent_events
    previous_descriptions,      \* NarratorManager.previous_descriptions
    scene_request,              \* the last scene request sent to the model: its PREVIOUS ... lines
    scene_calls,                \* number of scene requests made so far; the k-th answer is description k
    scene_messages,             \* AsyncConversationManager.scene.messages, as the list of speakers
    pending_responses,          \* AsyncConversationManager.pending_responses, as the list of characters
    is_silent,                  \* character.state.is_silent, per AI character
    listener                    \* the listening thread of each AI character: where it is, whether it cools down

\* persistence
persistVars == <<story_name, files, loaded, loaded_memory, persist_pc>>
\* the story manager
storyVars == <<story, messages_in_current_beat, advance_result>>

\* the worker pool of one round
roundVars == <<tasks, round_decisions>>

\* the parts of the system the scheduler's steps leave alone
\* calls of the read-only helpers
\* the objective evaluator
judgeVars == <<story_objectives, current_objective, judged>>

\* functions called on their own
\* the scene generators of SceneManager and NarratorManager
sceneVars == <<current_scene, previous_descriptions, scene_request, scene_calls>>

\* the asynchronous conversation
asyncVars == <<scene_messages, pending_responses, is_silent, listener>>

moreVars == <<selection, sceneVars, asyncVars>>

extraVars == <<recent, queried, judgeVars, moreVars>>

sideVars == <<persistVars, storyVars, roundVars, extraVars>>

vars == <<events, participants, current_participants, memory, characters,
          consecutive_silence_rounds, saved_len, pc, max_turns, responses,
          consecutive_count, last_speaker, n_decisions, result, call_start_len,
          last_round, outcome, judge_calls, sideVars>>

timelineVars == <<events, participants, current_participants>>
localVars == <<max_turns, responses, consecutive_count, last_speaker, n_decisions, result>>

\* ------------------------------------------------------- list utilities
\* Python "x in list"
InList(x, s) == \E i \in 1..Len(s) : s[i] = x

\* Python list.remove(x): drops the first occurrence
RECURSIVE ListRemove(_, _)
ListRemove(s, x) ==
    IF s = <<>> THEN <<>>
    ELSE IF Head(s) = x THEN Tail(s)
    ELSE <<Head(s)>> \o ListRemove(Tail(s), x)

\* Python keyword binding: a call binds only if every keyword names a parameter
CallBinds(params, kwargs) == kwargs \subseteq params

\* --------------------------------------------------------- event model
MessageEv(id, c, dialogue, action_description) ==
    [id |-> id, kind |-> "Message", character |-> c, content |-> dialogue, extra |-> action_description]
ActionEv(id, c, description) ==
    [id |-> id, kind |-> "Action", character |-> c, content |-> description, extra |-> ""]
SceneEv(id, location, description) ==
    [id |-> id, kind |-> "Scene", character |-> None, content |-> description, extra |-> location]
CharacterEntryEv(id, c, description) ==
    [id |-> id, kind |-> "CharacterEntry", character |-> c, content |-> description, extra |-> ""]
CharacterExitEv(id, c, description) ==
    [id |-> id, kind |-> "CharacterExit", character |-> c, content |-> description, extra |-> ""]

\* a timeline value: the three lists of TimelineHistory
Timeline(ev, ps, cps) == [events |-> ev, participants |-> ps, current_participants |-> cps]
CurTimeline == Timeline(events, participants, current_participants)

\* variant: the name is appended without the membership test
participants_after_always(tl, ev) ==
    IF ev.kind \in {"Message", "Action", "CharacterEntry", "CharacterExit"}
    THEN Append(tl.participants, ev.character)
    ELSE tl.participants

\* add_event, lines 64-84: timeline.participants after the event
participants_after(tl, ev) ==
    IF ev.kind \in {"Message", "Action", "CharacterEntry", "CharacterExit"}
       /\ ~InList(ev.character, tl.participants)
    THEN Append(tl.participants, ev.character)
    ELSE tl.participants

\* variant: an entry or a message adds the name without the membership test
current_participants_after_always(tl, ev) ==
    IF ev.kind \in {"Message", "Action", "CharacterEntry"}
    THEN Append(tl.current_participants, ev.character)
    ELSE IF ev.kind = "CharacterExit"
    THEN IF InList(ev.character, tl.current_participants)
         THEN ListRemove(tl.current_participants, ev.character)
         ELSE tl.current_participants
    ELSE tl.current_participants

\* add_event, lines 67-86: timeline.current_participants after the event
current_participants_after(tl, ev) ==
    IF ev.kind \in {"Message", "Action", "CharacterEntry"}
    THEN IF ~InList(ev.character, tl.current_participants)
         THEN Append(tl.current_participants, ev.character)
         ELSE tl.current_participants
    ELSE IF ev.kind = "CharacterExit"
    THEN IF InList(ev.character, tl.current_participants)
         THEN ListRemove(tl.current_participants, ev.character)
         ELSE tl.current_participants
    ELSE tl.current_participants

\* variant: the event is put in front of the list
events_after_front(tl, ev) == <<ev>> \o tl.events

\* add_event, line 61: timeline.events.append(event)
events_after(tl, ev) == Append(tl.events, ev)

\* variant: the event is appended twice
add_event_twice(tl, ev) ==
    Timeline(Append(Append(tl.events, ev), ev),
             participants_after(tl, ev), current_participants_after(tl, ev))

\* TimelineManager.add_event
add_event(tl, ev) ==
    Timeline(events_after(tl, ev),
             participants_after(tl, ev), current_participants_after(tl, ev))

\* variant: everybody on the roster is taken as present
active_characters_all(roster, tl) == roster

\* [c for c in self.characters if c.persona.name in self.timeline.current_participants]
active_characters(roster, tl) == {c \in roster : InList(c, tl.current_participants)}

\* CharacterManager.broadcast: append the event to the memory of each listed character
broadcast_event_to_characters(mem, chars, ev) ==
    [c \in Characters |-> IF c \in chars THEN Append(mem[c], ev) ELSE mem[c]]

\* fresh event id (uuid4 in the code): the position the event will take
NextId(tl) == Len(tl.events) + 1

\* ------------------------------------------------- oracle answer spaces
\* what decide_turn_response can hand back for one character:
\* (response_type, priority, reasoning, dialogue, action), or an exception
OracleAnswers ==
    {[response_type |-> "exception", priority |-> 0, reasoning |-> "ok", dialogue |-> "", action |-> ""]}
    \cup {[response_type |-> "silent", priority |-> 0, reasoning |-> r, dialogue |-> "", action |-> ""] :
            r \in {"ok", "API_QUOTA_EXCEEDED"}}
    \cup {[response_type |-> "speak", priority |-> p, reasoning |-> "ok", dialogue |-> d, action |-> ""] :
            p \in 0..MaxPriority, d \in {"", "hi"}}
    \cup {[response_type |-> "act", priority |-> p, reasoning |-> "ok", dialogue |-> "", action |-> a] :
            p \in 0..MaxPriority, a \in {"", "act"}}

\* what decide_character_movements can put in its entries / exits lists
\* (a known name, an unknown name, a missing description)
MoveInfos ==
    {[character |-> c, description |-> "d"] : c \in Characters \cup {"Stranger"}}
    \cup {[character |-> "A", description |-> ""]}
\* the (entries, exits) pairs of exactly n movements
MoveAnswersOf(n) == UNION {[1..i -> MoveInfos] \X [1..(n - i) -> MoveInfos] : i \in 0..n}
\* the (entries, exits) pairs of at most k movements
MoveAnswersWithin(k) == UNION {MoveAnswersOf(n) : n \in 0..k}

\* parameters of TimelineManager.create_scene and .generate_scene_event
CreateSceneParams == {"location", "description"}
GenerateSceneEventParams == {"timeline", "recent_event_count"}

\* select_next_speaker returning None
NoResult == [character |-> None, response_type |-> None, dialogue |-> "", action |-> ""]

\* no round of the loop has run yet; otherwise kind is the branch the round
\* took and candidates the number of decisions it had collected
NoRound == [kind |-> "none", candidates |-> 0]

\* process_ai_responses called without max_turns (max_turns = None)
NoArg == 0 - 1

\* ------------------------------------------------------------- Init
\* TurnManager.__init__ over the timeline RoleplaySystem.__init__ builds:
\* the initial scene, every name a participant and present
InitialScene == SceneEv(1, "Common Room", "begin")

\* the scheduler's own state after TurnManager.__init__
InitScheduler ==
    /\ characters = Characters
    /\ consecutive_silence_rounds = 0
    /\ saved_len = 0
    /\ pc = "idle"
    /\ max_turns = 0
    /\ responses = <<>>
    /\ consecutive_count = 0
    /\ last_speaker = None
    /\ n_decisions = 0
    /\ result = NoResult
    /\ call_start_len = 0
    /\ last_round = NoRound
    /\ outcome = "none"
    /\ judge_calls = 0

\* file names in chat_storage_dir
SavePath == "group_chat.json"
FileNames == {"group_chat.json", "default_chat.json"}
\* a file that does not exist
NoFile == [exists |-> FALSE, events |-> <<>>, participants |-> <<>>]
\* nothing loaded yet
NoTimeline == [events |-> <<>>, participants |-> <<>>, current_participants |-> <<>>]

\* nothing saved, nothing loaded, the default story_name of the constructor
InitPersistence ==
    /\ story_name = "default"
    /\ files = [f \in FileNames |-> NoFile]
    /\ loaded = NoTimeline
    /\ loaded_memory = [c \in Characters |-> <<>>]
    /\ persist_pc = "start"

\* StoryManager() without a story, as TurnManager.__init__ builds it
NoStory == [exists |-> FALSE, beats |-> <<>>, current_beat_index |-> 0, completed |-> FALSE]

InitStory ==
    /\ story = NoStory
    /\ messages_in_current_beat = 0
    /\ advance_result = "none"

\* a record with the fields of an oracle answer, standing for no answer
NoAnswer == [response_type |-> None, priority |-> 0, reasoning |-> "", dialogue |-> "", action |-> ""]
\* no future was submitted for the character
NoTask == [status |-> "none", call |-> "none", answer |-> NoAnswer]

\* get_recent_events has not been called
NoQuery == [done |-> FALSE, n |-> 0, event_type |-> None, result |-> <<>>]

\* no decision call was made
NoQueries == [present |-> {}, asked |-> [c \in Characters |-> 0]]

\* no story is set
NoObjectives == [exists |-> FALSE, n |-> 0, current_objective_index |-> 0]

\* the evaluator has not run
NoJudgement == [done |-> FALSE, asked |-> FALSE, story_objective_complete |-> FALSE,
                index_before |-> 0]

\* no story, no objective assigned, no evaluation yet
InitJudge ==
    /\ story_objectives = NoObjectives
    /\ current_objective = [c \in Characters |-> None]
    /\ judged = NoJudgement

\* _select_speaker_from_decisions has not been called on its own
NoSelection == [done |-> FALSE, decisions |-> {}, result |-> NoResult]

\* the description create_scene is given
InitialDescription == 0

\* SceneManager(): current_scene is None
NoScene == [exists |-> FALSE, recent_events |-> <<>>]

\* no request was sent
NoRequest == [made |-> FALSE, by |-> None, before |-> <<>>, negative |-> <<>>]

\* new managers, create_scene not called
InitScene ==
    /\ current_scene = NoScene
    /\ previous_descriptions = <<>>
    /\ scene_request = NoRequest
    /\ scene_calls = 0

\* a new AsyncConversationManager after start_ai_listening: no message, an
\* empty queue, every thread at the top of its loop with last_spoke_time None
InitAsync ==
    /\ scene_messages = <<>>
    /\ pending_responses = <<>>
    /\ is_silent = [c \in Characters |-> FALSE]
    /\ listener = [c \in Characters |-> [at |-> "sleep", cooling |-> FALSE]]

InitMore ==
    /\ selection = NoSelection
    /\ InitScene
    /\ InitAsync

InitExtra ==
    /\ recent = NoQuery
    /\ queried = NoQueries
    /\ InitMore
    /\ InitJudge

\* no round is collecting
InitRound ==
    /\ tasks = [c \in Characters |-> NoTask]
    /\ round_decisions = {}

\* the timeline and the memories of a new system
InitTimeline ==
    /\ events = <<InitialScene>>
    /\ participants = <<Player, "A", "B">>
    /\ current_participants = <<Player, "A", "B">>
    /\ memory = [c \in Characters |-> <<>>]

Init ==
    /\ InitTimeline
    /\ InitScheduler
    /\ InitPersistence
    /\ InitStory
    /\ InitRound
    /\ InitExtra

\* ------------------------------------------------ RoleplaySystem._add_player_message
add_player_message ==
    /\ pc = "idle"
    /\ Len(events) < MaxEvents
    /\ LET message == MessageEv(NextId(CurTimeline), Player, "hello", "speaks")
           tl == add_event(CurTimeline, message)
       IN  /\ events' = tl.events
           /\ participants' = tl.participants
           /\ current_participants' = tl.current_participants
           /\ memory' = broadcast_event_to_characters(memory, active_characters(Characters, tl), message)
           /\ saved_len' = Len(tl.events)
    /\ UNCHANGED <<characters, consecutive_silence_rounds, pc, localVars, call_start_len,
                   last_round, outcome, judge_calls, sideVars>>

\* ------------------------------------------------ the meta-narrative step
\* the loop over entries then exits of _process_meta_narrative_decisions;
\* st = [tl |-> timeline, mem |-> memories], moves = <<[info, is_entry], ...>>
RECURSIVE process_movements(_, _, _)
process_movements(moves, roster, st) ==
    IF moves = <<>> THEN st
    ELSE LET m == Head(moves)
             name == m.info.character
         IN  IF name = "" \/ m.info.description = "" \/ name \notin roster
             THEN process_movements(Tail(moves), roster, st)
             ELSE LET event == IF m.is_entry
                               THEN CharacterEntryEv(NextId(st.tl), name, m.info.description)
                               ELSE CharacterExitEv(NextId(st.tl), name, m.info.description)
                      tl1 == add_event(st.tl, event)
                      mem1 == broadcast_event_to_characters(st.mem, active_characters(roster, tl1), event)
                      mem2 == IF m.is_entry
                              THEN broadcast_event_to_characters(mem1, {name}, event)
                              ELSE mem1
                  IN  process_movements(Tail(moves), roster, [tl |-> tl1, mem |-> mem2])

Movements(entries, exits) ==
    [i \in 1..(Len(entries) + Len(exits)) |->
        IF i <= Len(entries) THEN [info |-> entries[i], is_entry |-> TRUE]
        ELSE [info |-> exits[i - Len(entries)], is_entry |-> FALSE]]

\* lines 271-272: max_turns defaults to self.max_consecutive_ai_turns
MaxTurnsOf(arg) == IF arg = NoArg THEN MAX_CONSECUTIVE_AI_TURNS ELSE arg

\* process_ai_responses, lines 271-280: the argument default, the
\* meta-narrative step and the initialisation of the loop's locals.
\* arg = NoArg stands for a call without max_turns.
process_ai_responses(arg, scene_decision, entries, exits) ==
    /\ pc = "idle"
    /\ UNCHANGED sideVars
    /\ LET mt == MaxTurnsOf(arg)
       IN  /\ Len(events) + mt + Len(entries) + Len(exits) <= MaxEvents
           /\ IF scene_decision
                 /\ ~CallBinds(CreateSceneParams, {"scene_type", "location", "description"})
              THEN \* create_scene(scene_type=...) raises TypeError, nothing catches it
                   /\ outcome' = "raised"
                   /\ responses' = <<>>
                   /\ judge_calls' = 0
                   /\ UNCHANGED <<timelineVars, memory, characters, consecutive_silence_rounds,
                                  saved_len, pc, max_turns, consecutive_count, last_speaker,
                                  n_decisions, result, call_start_len, last_round>>
              ELSE LET st0 == IF scene_decision
                              THEN LET scene == SceneEv(NextId(CurTimeline), "loc", "meta")
                                       tl0 == add_event(CurTimeline, scene)
                                   IN  [tl |-> tl0,
                                        mem |-> broadcast_event_to_characters(
                                                   memory, active_characters(characters, tl0), scene)]
                              ELSE [tl |-> CurTimeline, mem |-> memory]
                       st == process_movements(Movements(entries, exits), characters, st0)
                   IN  /\ events' = st.tl.events
                       /\ participants' = st.tl.participants
                       /\ current_participants' = st.tl.current_participants
                       /\ memory' = st.mem
                       /\ max_turns' = mt
                       /\ responses' = <<>>
                       /\ consecutive_count' = 0
                       /\ last_speaker' = None
                       /\ call_start_len' = Len(events)
                       /\ last_round' = NoRound
                       /\ pc' = "loop"
                       /\ outcome' = "none"
                       /\ judge_calls' = 0
                       /\ UNCHANGED <<characters, consecutive_silence_rounds, saved_len,
                                      n_decisions, result>>

\* _collect_speaking_decisions: the list built from the workers' answers;
\* an exception, a quota signal and a silent answer add nothing to it
collect_speaking_decisions(answers) ==
    {[character |-> c, response_type |-> answers[c].response_type,
      priority |-> answers[c].priority, dialogue |-> answers[c].dialogue,
      action |-> answers[c].action] :
        c \in {x \in DOMAIN answers :
                 /\ answers[x].response_type \in {"speak", "act"}
                 /\ answers[x].reasoning # "API_QUOTA_EXCEEDED"}}

\* decision_tuple[1] + random.uniform(-r, r)
AdjustedPriority(d, jitter) == d.priority + jitter[d.character]

\* variant: the sort is ascending (reverse=True left out)
select_speaker_from_decisions_ascending(decs, jitter) ==
    {[character |-> d.character, response_type |-> d.response_type,
      dialogue |-> d.dialogue, action |-> d.action] :
        d \in {x \in decs : \A y \in decs : AdjustedPriority(x, jitter) <= AdjustedPriority(y, jitter)}}

\* _select_speaker_from_decisions: the entries that can come first after the
\* descending sort on adjusted priority (equal keys keep completion order,
\* which is arbitrary)
select_speaker_from_decisions(decs, jitter) ==
    {[character |-> d.character, response_type |-> d.response_type,
      dialogue |-> d.dialogue, action |-> d.action] :
        d \in {x \in decs : \A y \in decs : AdjustedPriority(x, jitter) >= AdjustedPriority(y, jitter)}}

Jitters == [Characters -> (0 - PRIORITY_RANDOMNESS)..PRIORITY_RANDOMNESS]

\* variant: the cap is tested with <=
LoopCondition_le(count, mt) == count <= mt

\* line 282: the while condition
LoopCondition(count, mt) == count < mt

\* what select_next_speaker can hand back over the given active characters,
\* for every answer of the decision oracle and every draw of the jitter:
\* the selected entry (NoResult when nothing was collected) and len(decisions)
next_speaker_outcomes(active) ==
    UNION {LET decs == collect_speaking_decisions(answers)
           IN  IF decs = {}
               THEN {[result |-> NoResult, n |-> 0]}
               ELSE {[result |-> r, n |-> Cardinality(decs)] :
                       r \in UNION {select_speaker_from_decisions(decs, jitter) : jitter \in Jitters}} :
           answers \in [active -> OracleAnswers]}

NextSpeakerOutcomes == [active \in SUBSET Characters |-> next_speaker_outcomes(active)]

\* the AI characters whose name is in timeline.current_participants
present_characters(tl) == {c \in Characters : InList(c, tl.current_participants)}

\* lines 77-84: one future, and so one decide_turn_response call, for every
\* character of self.characters
decision_calls(chars) == [c \in Characters |-> IF c \in chars THEN 1 ELSE 0]

\* line 285: result = self.select_next_speaker()
select_next_speaker ==
    /\ pc = "loop"
    /\ LoopCondition(consecutive_count, max_turns)
    /\ last_round' = NoRound
    /\ LET active == active_characters(characters, CurTimeline)
       IN  IF events = <<>>
           THEN \* no events in the timeline: return None before asking anyone
                /\ result' = NoResult
                /\ n_decisions' = 0
                /\ pc' = "body"
                /\ queried' = NoQueries
                /\ UNCHANGED <<characters, outcome>>
           ELSE IF active = {}
           THEN \* ThreadPoolExecutor(max_workers=0) raises ValueError while
                \* self.characters is narrowed to the (empty) active list
                /\ characters' = active
                /\ outcome' = "raised"
                /\ pc' = "idle"
                /\ queried' = NoQueries
                /\ UNCHANGED <<n_decisions, result>>
           ELSE \E o \in NextSpeakerOutcomes[active] :
                    /\ result' = o.result
                    /\ n_decisions' = o.n
                    /\ pc' = "body"
                    /\ queried' = [present |-> present_characters(CurTimeline),
                                   asked |-> decision_calls(active)]
                    /\ UNCHANGED <<characters, outcome>>
    /\ UNCHANGED <<timelineVars, memory, consecutive_silence_rounds, saved_len,
                   max_turns, responses, consecutive_count, last_speaker, call_start_len,
                   judge_calls, persistVars, storyVars, roundVars, recent, judgeVars, moreVars>>

\* the while condition is false: leave the loop
LoopExit ==
    /\ pc = "loop"
    /\ ~LoopCondition(consecutive_count, max_turns)
    /\ pc' = "finish"
    /\ UNCHANGED <<timelineVars, memory, characters, consecutive_silence_rounds,
                   saved_len, localVars, call_start_len, last_round, outcome, judge_calls, sideVars>>

\* TurnManager._generate_scene_event: the state it leaves behind.
\* scene_ok: the scene oracle answered with a usable scene
generate_scene_event(st, roster, scene_ok) ==
    IF CallBinds(GenerateSceneEventParams, {"scene_type", "timeline", "recent_event_count"})
       /\ scene_ok
    THEN LET scene == SceneEv(NextId(st.tl), "loc", "stall")
             tl1 == add_event(st.tl, scene)
         IN  [tl |-> tl1,
              mem |-> broadcast_event_to_characters(st.mem, active_characters(roster, tl1), scene),
              saved |-> Len(tl1.events)]
    ELSE \* TypeError / RuntimeError, caught at line 412: nothing is appended
         st

\* lines 289-296: the counter after a round in which select_next_speaker returned None
SilenceAfterNoResult(n) == IF n + 1 >= SILENCE_THRESHOLD THEN 0 ELSE n + 1

\* line 293: the stall detector fires in this round
StallDetected(n) == n + 1 >= SILENCE_THRESHOLD

\* variant: the counter is not reset
SilenceAfterResult_keep(n) == n

\* line 301: the counter after a round in which somebody was selected
SilenceAfterResult(n) == 0

\* variant: the repeat test never fires
IsRepeatSpeaker_never(last, res) == FALSE

\* line 306: the selected character is the one applied last in this call
IsRepeatSpeaker(last, res) == last = res.character

\* lines 311-316: speak without dialogue, act without action
IsInvalidResponse(res) ==
    \/ (res.response_type = "speak" /\ res.dialogue = "")
    \/ (res.response_type = "act" /\ res.action = "")

\* lines 324-328 and 351-354: the event created for the selected response
ResponseEvent(id, res) ==
    IF res.response_type = "speak"
    THEN MessageEv(id, res.character, res.dialogue,
                   IF res.action = "" THEN "speaks" ELSE res.action)
    ELSE ActionEv(id, res.character, res.action)

\* lines 343 and 364: the entry added to the returned list
ResponseEntry(ev, res) ==
    [character |-> res.character, event_id |-> ev.id,
     message |-> IF res.response_type = "speak" THEN res.dialogue ELSE "[ACTION]"]

\* variant: the new entry is put at the front of the list
responses_after_front(resp, entry) == <<entry>> \o resp

\* lines 343 and 364: responses.append(...)
responses_after(resp, entry) == Append(resp, entry)

\* lines 287-370: the body of the while loop after select_next_speaker returned
LoopBody(scene_ok) ==
    /\ pc = "body"
    /\ n_decisions' = 0
    /\ result' = NoResult
    /\ IF result = NoResult
       THEN \* lines 287-298
            LET st0 == [tl |-> CurTimeline, mem |-> memory, saved |-> saved_len]
                st == IF StallDetected(consecutive_silence_rounds)
                      THEN generate_scene_event(st0, characters, scene_ok)
                      ELSE st0
            IN  /\ consecutive_silence_rounds' = SilenceAfterNoResult(consecutive_silence_rounds)
                /\ events' = st.tl.events
                /\ participants' = st.tl.participants
                /\ current_participants' = st.tl.current_participants
                /\ memory' = st.mem
                /\ saved_len' = st.saved
                /\ pc' = "finish"
                /\ last_round' = [kind |-> IF StallDetected(consecutive_silence_rounds)
                                           THEN "stall" ELSE "silent",
                                  candidates |-> n_decisions]
                /\ UNCHANGED <<responses, consecutive_count, last_speaker>>
       ELSE /\ consecutive_silence_rounds' = SilenceAfterResult(consecutive_silence_rounds)
            /\ IF IsRepeatSpeaker(last_speaker, result) \/ IsInvalidResponse(result)
               THEN \* lines 306-316: continue
                    /\ pc' = "loop"
                    /\ last_round' = [kind |-> IF IsRepeatSpeaker(last_speaker, result)
                                               THEN "repeat" ELSE "invalid",
                                      candidates |-> n_decisions]
                    /\ UNCHANGED <<timelineVars, memory, saved_len, responses,
                                   consecutive_count, last_speaker>>
               ELSE LET ev == ResponseEvent(NextId(CurTimeline), result)
                        tl == add_event(CurTimeline, ev)
                    IN  /\ events' = tl.events
                        /\ participants' = tl.participants
                        /\ current_participants' = tl.current_participants
                        /\ memory' = broadcast_event_to_characters(
                                        memory, active_characters(characters, tl), ev)
                        /\ responses' = responses_after(responses, ResponseEntry(ev, result))
                        /\ last_speaker' = result.character
                        /\ consecutive_count' = consecutive_count + 1
                        /\ pc' = "loop"
                        /\ last_round' = [kind |-> "applied", candidates |-> n_decisions]
                        /\ UNCHANGED saved_len
    /\ queried' = NoQueries
    /\ UNCHANGED <<characters, max_turns, call_start_len, outcome, judge_calls,
                   persistVars, storyVars, roundVars, recent, judgeVars, moreVars>>

\* line 373: if self.story_manager and responses
judge_invocations(resp) == IF resp # <<>> THEN 1 ELSE 0

\* lines 372-380: judge evaluation, save, return.  TurnManager builds its own
\* StoryManager() without a story, so _evaluate_objectives_with_judge returns
\* at its first test and changes nothing.
Finish ==
    /\ pc = "finish"
    /\ judge_calls' = judge_invocations(responses)
    /\ saved_len' = IF responses # <<>> THEN Len(events) ELSE saved_len
    /\ outcome' = "returned"
    /\ pc' = "idle"
    /\ max_turns' = 0
    /\ consecutive_count' = 0
    /\ last_speaker' = None
    /\ call_start_len' = 0
    /\ UNCHANGED <<timelineVars, memory, characters, consecutive_silence_rounds,
                   responses, n_decisions, result, last_round, sideVars>>

\* ------------------------------------------------ server.py: POST /api/chat
\* lines 105-116: the decisions in the order the endpoint applies them, sorted
\* on the raw priority, descending (equal priorities keep completion order)
chat_orderings(decs) ==
    {s \in [1..Cardinality(decs) -> decs] :
        /\ \A i, j \in DOMAIN s : i # j => s[i] # s[j]
        /\ \A i, j \in DOMAIN s : i < j => s[i].priority >= s[j].priority}

\* what the endpoint can find to apply over the given characters, for every
\* answer of the decision oracle.  With no character at all the executor
\* raises, the endpoint catches it (line 117) and goes on with no decision.
chat_outcomes(chars) ==
    UNION {chat_orderings(collect_speaking_decisions(answers)) :
              answers \in [chars -> OracleAnswers]}

ChatOutcomes == [chars \in SUBSET Characters |-> chat_outcomes(chars)]

\* lines 125-161: apply the decisions in order, at most CHAT_MAX_RESPONSES of
\* them, each appended and broadcast to system.ai_characters
RECURSIVE chat_apply(_, _, _)
chat_apply(decs, count, st) ==
    IF decs = <<>> \/ count >= CHAT_MAX_RESPONSES THEN st
    ELSE LET d == Head(decs)
             ev == IF d.response_type = "speak"
                   THEN MessageEv(NextId(st.tl), d.character, d.dialogue, d.action)
                   ELSE ActionEv(NextId(st.tl), d.character, d.action)
         IN  chat_apply(Tail(decs), count + 1,
                        [tl |-> add_event(st.tl, ev),
                         mem |-> broadcast_event_to_characters(st.mem, Characters, ev)])

\* the whole request: the user's message is appended (line 85, no broadcast),
\* the decisions of turn_manager.characters are collected and applied
chat ==
    /\ pc = "idle"
    /\ \E decs \in ChatOutcomes[characters] :
          /\ Len(events) + 1 + Len(decs) <= MaxEvents
          /\ LET user_message == MessageEv(NextId(CurTimeline), Player, "hello", "Speaking")
                 tl0 == add_event(CurTimeline, user_message)
                 st == chat_apply(decs, 0, [tl |-> tl0, mem |-> memory])
             IN  /\ events' = st.tl.events
                 /\ participants' = st.tl.participants
                 /\ current_participants' = st.tl.current_participants
                 /\ memory' = st.mem
                 /\ queried' = [present |-> present_characters(tl0),
                                asked |-> decision_calls(characters)]
    /\ UNCHANGED <<characters, consecutive_silence_rounds, saved_len, pc, localVars,
                   call_start_len, last_round, outcome, judge_calls,
                   persistVars, storyVars, roundVars, recent, judgeVars, moreVars>>

Call ==
    \E arg \in (0..MaxTurnsArg) \cup {NoArg}, scene_decision \in BOOLEAN :
        LET room == MaxEvents - Len(events) - MaxTurnsOf(arg)
        IN  /\ room >= 0
            \* the movement oracle is asked only when the scene step did not raise
            /\ \E m \in IF scene_decision
                           /\ ~CallBinds(CreateSceneParams, {"scene_type", "location", "description"})
                        THEN {<<<<>>, <<>>>>}
                        ELSE MoveAnswersWithin(IF room < MaxMoves THEN room ELSE MaxMoves) :
                   process_ai_responses(arg, scene_decision, m[1], m[2])

Body == \E scene_ok \in BOOLEAN : LoopBody(scene_ok)

Next ==
    \/ add_player_message
    \/ Call
    \/ select_next_speaker
    \/ LoopExit
    \/ Body
    \/ Finish

Spec == Init /\ [][Next]_vars

\* the call runs to its next step whenever it has one: the interpreter does
\* not stop in the middle of process_ai_responses
FairSpec ==
    Spec /\ WF_vars(select_next_speaker) /\ WF_vars(LoopExit) /\ WF_vars(Body) /\ WF_vars(Finish)

\* the same system driven from the HTTP endpoint as well
NextChat == Next \/ chat

ChatSpec == Init /\ [][NextChat]_vars

\* ------------------------------------------------ saving and loading
\* the steps that build a timeline before it is saved: the player speaks, a
\* present character is applied by the scheduler, a character enters or leaves
HistorySteps == {"player", "A_speaks", "B_acts", "A_enters", "A_exits"}

\* the timeline and the memories after one such step, built by the calls the
\* program makes for it
history_step(step, st) ==
    IF step = "player"
    THEN LET ev == MessageEv(NextId(st.tl), Player, "hello", "speaks")
             tl1 == add_event(st.tl, ev)
         IN  [tl |-> tl1,
              mem |-> broadcast_event_to_characters(st.mem, active_characters(Characters, tl1), ev)]
    ELSE IF step \in {"A_speaks", "B_acts"}
    THEN LET res == IF step = "A_speaks"
                    THEN [character |-> "A", response_type |-> "speak", dialogue |-> "hi", action |-> ""]
                    ELSE [character |-> "B", response_type |-> "act", dialogue |-> "", action |-> "act"]
         IN  IF res.character \notin active_characters(Characters, st.tl)
             THEN st
             ELSE LET ev == ResponseEvent(NextId(st.tl), res)
                      tl1 == add_event(st.tl, ev)
                  IN  [tl |-> tl1,
                       mem |-> broadcast_event_to_characters(
                                  st.mem, active_characters(Characters, tl1), ev)]
    ELSE process_movements(<<[info |-> [character |-> "A", description |-> "d"],
                              is_entry |-> (step = "A_enters")]>>, Characters, st)

RECURSIVE history(_, _)
history(steps, st) ==
    IF steps = <<>> THEN st ELSE history(Tail(steps), history_step(Head(steps), st))

\* the states the system can be in when it saves: every history of at most
\* MaxSavedSteps steps from the initial timeline
SavedStates ==
    {history(steps, [tl |-> Timeline(<<InitialScene>>, <<Player, "A", "B">>, <<Player, "A", "B">>),
                     mem |-> [c \in Characters |-> <<>>]]) :
        steps \in UNION {[1..n -> HistorySteps] : n \in 0..MaxSavedSteps}}

\* _save_conversation, lines 251-275: the dictionary written for one event.
\* keys are the kind-specific keys of the dictionary.
serialize_event(e) ==
    IF e.kind = "Message"
    THEN [type |-> "message", keys |-> {"character", "dialouge", "action_description"},
          id |-> e.id, character |-> e.character, content |-> e.content, extra |-> e.extra]
    ELSE IF e.kind = "Scene"
    THEN [type |-> "scene", keys |-> {"location", "description"},
          id |-> e.id, character |-> None, content |-> e.content, extra |-> e.extra]
    ELSE [type |-> "action", keys |-> {"character", "description"},
          id |-> e.id, character |-> e.character, content |-> e.content, extra |-> ""]

\* line 276: isinstance(event, CharacterEntry) reads a name that is local to
\* the function (it is imported inside the branch, line 277) and not yet
\* bound: UnboundLocalError for every event that is no Message, Scene
\* or Action
SaveRaises(tl) ==
    \E i \in 1..Len(tl.events) : tl.events[i].kind \notin {"Message", "Scene", "Action"}

\* _save_conversation: the files after the call.  The file is opened only
\* after the loop, so a raise (caught at line 303) leaves the files as they were.
save_conversation(tl, fs) ==
    IF SaveRaises(tl) THEN fs
    ELSE [fs EXCEPT ![SavePath] =
             [exists |-> TRUE,
              events |-> [i \in 1..Len(tl.events) |-> serialize_event(tl.events[i])],
              participants |-> tl.participants]]

\* get_conversation_file_path, lines 339-340 (names here are lower case, no blanks)
conversation_file_path(name) == name \o "_chat.json"

\* _load_conversation_if_exists, lines 144-198: the event built from one
\* dictionary, by the first branch whose test the dictionary passes
load_event(d) ==
    IF d.type = "message" \/ {"character", "dialouge"} \subseteq d.keys
    THEN MessageEv(d.id, d.character, d.content, d.extra)
    ELSE IF d.type = "scene" \/ {"location", "description"} \subseteq d.keys
    THEN SceneEv(d.id, d.extra, d.content)
    ELSE IF d.type = "action" \/ {"character", "description"} \subseteq d.keys
    THEN ActionEv(d.id, d.character, d.content)
    ELSE IF d.type = "character_entry"
    THEN CharacterEntryEv(d.id, d.character, d.content)
    ELSE CharacterExitEv(d.id, d.character, d.content)

\* the initial scene of a newly constructed system: a new uuid
FreshScene == SceneEv(0, "Common Room", "begin")

\* RoleplaySystem.__init__ followed by _load_conversation_if_exists: the
\* timeline of the new system.  current_participants is not in the file and
\* stays as the constructor left it.
load_conversation_if_exists(fs, name) ==
    LET path == conversation_file_path(name)
    IN  IF path \notin DOMAIN fs \/ ~fs[path].exists
        THEN Timeline(<<FreshScene>>, <<Player, "A", "B">>, <<Player, "A", "B">>)
        ELSE Timeline([i \in 1..Len(fs[path].events) |-> load_event(fs[path].events[i])],
                      fs[path].participants,
                      <<Player, "A", "B">>)

\* _load_conversation_if_exists, lines 200-214: the loaded events are replayed
\* in order; each goes to the roster's characters in present_at_moment, and
\* only then does an entry or exit change present_at_moment
RECURSIVE replay_events(_, _, _)
replay_events(evs, present_at_moment, mem) ==
    IF evs = <<>> THEN mem
    ELSE LET event == Head(evs)
             mem1 == broadcast_event_to_characters(mem, Characters \cap present_at_moment, event)
             present1 == IF event.kind = "CharacterEntry"
                         THEN present_at_moment \cup {event.character}
                         ELSE IF event.kind = "CharacterExit"
                         THEN present_at_moment \ {event.character}
                         ELSE present_at_moment
         IN  replay_events(Tail(evs), present1, mem1)

\* the memories of the new system's characters once its constructor has
\* called _load_conversation_if_exists: untouched when there is no file
load_memories(fs, name) ==
    LET path == conversation_file_path(name)
        tl == load_conversation_if_exists(fs, name)
        fresh == [c \in Characters |-> <<>>]
    IN  IF path \notin DOMAIN fs \/ ~fs[path].exists
        THEN fresh
        ELSE replay_events(tl.events, {tl.participants[i] : i \in 1..Len(tl.participants)}, fresh)

\* the constructor's story_name argument
StoryNames == {"default", "group"}

RoundTripInit ==
    /\ \E st \in SavedStates :
          /\ events = st.tl.events
          /\ participants = st.tl.participants
          /\ current_participants = st.tl.current_participants
          /\ memory = st.mem
    /\ InitScheduler
    /\ story_name \in StoryNames
    /\ files = [f \in FileNames |-> NoFile]
    /\ loaded = NoTimeline
    /\ loaded_memory = [c \in Characters |-> <<>>]
    /\ persist_pc = "start"
    /\ InitStory
    /\ InitRound
    /\ InitExtra

SaveConversation ==
    /\ persist_pc = "start"
    /\ files' = save_conversation(CurTimeline, files)
    /\ persist_pc' = "saved"
    /\ UNCHANGED <<timelineVars, memory, characters, consecutive_silence_rounds, saved_len,
                   pc, localVars, call_start_len, last_round, outcome, judge_calls, story_name, loaded,
                   loaded_memory, storyVars, roundVars, extraVars>>

\* the program is started again on the same storage directory
LoadConversation ==
    /\ persist_pc = "saved"
    /\ loaded' = load_conversation_if_exists(files, story_name)
    /\ loaded_memory' = load_memories(files, story_name)
    /\ persist_pc' = "loaded"
    /\ UNCHANGED <<timelineVars, memory, characters, consecutive_silence_rounds, saved_len,
                   pc, localVars, call_start_len, last_round, outcome, judge_calls, story_name, files,
                   storyVars, roundVars, extraVars>>

RoundTripNext == SaveConversation \/ LoadConversation

RoundTripSpec == RoundTripInit /\ [][RoundTripNext]_vars

\* RoleplaySystem.reset_conversation: the file of get_conversation_file_path
\* is deleted and timeline.events is cleared; nothing else is written
reset_conversation ==
    /\ LET path == conversation_file_path(story_name)
       IN  files' = IF path \in DOMAIN files THEN [files EXCEPT ![path] = NoFile] ELSE files
    /\ events' = <<>>
    /\ UNCHANGED <<participants, current_participants, memory, characters,
                   consecutive_silence_rounds, saved_len, pc, localVars, call_start_len,
                   last_round, outcome, judge_calls, story_name, loaded, loaded_memory,
                   persist_pc,
                   storyVars, roundVars, extraVars>>

\* a session that is saved, reset and started again in any order
ResetNext == RoundTripNext \/ reset_conversation

ResetSpec == RoundTripInit /\ [][ResetNext]_vars

\* ------------------------------------------------ the story manager
\* Story(...) as the loader builds it: n beats, none completed, index 0
NewStory(n) ==
    [exists |-> TRUE, beats |-> [i \in 1..n |-> [completed |-> FALSE]],
     current_beat_index |-> 0, completed |-> FALSE]

\* the methods the Story model of data_models.py defines (it has fields only)
StoryMethods == {}

mainVars == <<timelineVars, memory, characters, consecutive_silence_rounds, saved_len, pc,
              localVars, call_start_len, last_round, outcome, judge_calls>>

StoryInit ==
    /\ InitTimeline
    /\ InitScheduler
    /\ InitPersistence
    /\ story \in {NoStory} \cup {NewStory(n) : n \in 0..MaxBeats}
    /\ messages_in_current_beat = 0
    /\ advance_result = "none"
    /\ InitRound
    /\ InitExtra

\* StoryManager.increment_message_count
increment_message_count ==
    /\ messages_in_current_beat < MaxBeatMessages
    /\ messages_in_current_beat' = messages_in_current_beat + 1
    /\ UNCHANGED <<mainVars, persistVars, roundVars, extraVars, story, advance_result>>

\* variant: the index is raised whatever its value
CanAdvance_always(index, n) == TRUE

\* line 299: there is a beat after the current one
CanAdvance(index, n) == index < n - 1

\* beats[index]["completed"] = True (Python index, from 0)
complete_beat(beats, index) == [beats EXCEPT ![index + 1].completed = TRUE]

\* StoryManager.advance_beat
advance_beat ==
    /\ IF ~story.exists
       THEN /\ advance_result' = "False"
            /\ UNCHANGED story
       ELSE IF CanAdvance(story.current_beat_index, Len(story.beats))
       THEN /\ story' = [story EXCEPT
                            !.beats = IF story.current_beat_index + 1 \in DOMAIN story.beats
                                      THEN complete_beat(story.beats, story.current_beat_index)
                                      ELSE story.beats,
                            !.current_beat_index = story.current_beat_index + 1]
            /\ advance_result' = "True"
       ELSE /\ story' = [story EXCEPT
                            !.beats = IF story.beats # <<>>
                                      THEN complete_beat(story.beats, story.current_beat_index)
                                      ELSE story.beats,
                            !.completed = TRUE]
            /\ advance_result' = "False"
    /\ UNCHANGED <<mainVars, persistVars, roundVars, extraVars, messages_in_current_beat>>

\* StoryManager.advance_story: it calls self.story.advance_beat(), a method
\* the Story model does not have, so with a story it raises AttributeError
\* before the counters are reset
advance_story ==
    /\ IF ~story.exists
       THEN /\ advance_result' = "False"
            /\ UNCHANGED messages_in_current_beat
       ELSE IF "advance_beat" \in StoryMethods
       THEN /\ advance_result' = "True"
            /\ messages_in_current_beat' = 0
       ELSE /\ advance_result' = "raised"
            /\ UNCHANGED messages_in_current_beat
    /\ UNCHANGED <<mainVars, persistVars, roundVars, extraVars, story>>

\* StoryManager.get_current_beat: the beat at the index, None past the last
get_current_beat(st) ==
    IF st.exists /\ st.current_beat_index < Len(st.beats)
    THEN st.beats[st.current_beat_index + 1]
    ELSE None

StoryNext == increment_message_count \/ advance_beat \/ advance_story

StorySpec == StoryInit /\ [][StoryNext]_vars

\* ------------------------------------------------ TimelineManager.get_recent_events
\* the event_type arguments: the five the function knows, and None
EventTypes == {"message", "scene", "action", "entry", "exit", None}

\* lines 109-118: the class an event_type selects
KindOfType(event_type) ==
    IF event_type = "message" THEN "Message"
    ELSE IF event_type = "scene" THEN "Scene"
    ELSE IF event_type = "action" THEN "Action"
    ELSE IF event_type = "entry" THEN "CharacterEntry"
    ELSE "CharacterExit"

\* the events an event_type lets through, in timeline order
filter_events(evs, event_type) ==
    IF event_type = None THEN evs
    ELSE SelectSeq(evs, LAMBDA e : e.kind = KindOfType(event_type))

\* Python s[-n:] for n >= 0: -0 is 0, so n = 0 takes the whole list
slice_from_minus(s, n) ==
    IF n = 0 \/ n >= Len(s) THEN s ELSE SubSeq(s, Len(s) - n + 1, Len(s))

\* line 120: events[-n:] if len(events) > n else events
get_recent_events(tl, n, event_type) ==
    LET evs == filter_events(tl.events, event_type)
    IN  IF Len(evs) > n THEN slice_from_minus(evs, n) ELSE evs

RecentInit ==
    /\ \E st \in SavedStates :
          /\ events = st.tl.events
          /\ participants = st.tl.participants
          /\ current_participants = st.tl.current_participants
          /\ memory = st.mem
    /\ InitScheduler
    /\ InitPersistence
    /\ InitStory
    /\ InitRound
    /\ InitExtra

\* one call of get_recent_events on the timeline
GetRecentEvents ==
    /\ ~recent.done
    /\ \E n \in 0..MaxRecent, event_type \in EventTypes :
          recent' = [done |-> TRUE, n |-> n, event_type |-> event_type,
                     result |-> get_recent_events(CurTimeline, n, event_type)]
    /\ UNCHANGED <<mainVars, persistVars, storyVars, roundVars, queried, judgeVars, moreVars>>

RecentNext == GetRecentEvents

RecentSpec == RecentInit /\ [][RecentNext]_vars

\* ------------------------------------------------ TimelineManager.add_event alone
\* the participants lists create_timeline_history is called with: none, the
\* player only, everybody
CreatedParticipants == {<<>>, <<Player>>, <<Player, "A", "B">>}

\* the events add_event can be handed, with the id they will carry
EventsToAdd(id) ==
    {SceneEv(id, "loc", "scene")}
    \cup UNION {{MessageEv(id, c, "hi", "speaks"), ActionEv(id, c, "act"),
                 CharacterEntryEv(id, c, "d"), CharacterExitEv(id, c, "d")} :
                    c \in {Player} \cup Characters}

\* TimelineManager.create_timeline_history: no events yet, everybody listed is present
AddEventInit ==
    /\ events = <<>>
    /\ participants \in CreatedParticipants
    /\ current_participants = participants
    /\ memory = [c \in Characters |-> <<>>]
    /\ InitScheduler
    /\ InitPersistence
    /\ InitStory
    /\ InitRound
    /\ InitExtra

\* one call of add_event
AddEvent ==
    /\ Len(events) < MaxAdded
    /\ \E ev \in EventsToAdd(NextId(CurTimeline)) :
          LET tl == add_event(CurTimeline, ev)
          IN  /\ events' = tl.events
              /\ participants' = tl.participants
              /\ current_participants' = tl.current_participants
    /\ UNCHANGED <<memory, characters, consecutive_silence_rounds, saved_len, pc,
                   localVars, call_start_len, last_round, outcome, judge_calls, sideVars>>

AddEventNext == AddEvent

AddEventSpec == AddEventInit /\ [][AddEventNext]_vars

\* ------------------------------------------------ the selection on its own
\* _select_speaker_from_decisions on lists whose priorities lie further apart
\* than the jitter can bridge

\* what a character can have put on the list: a decision to speak or to act
\* with a priority in 0..MaxSelectPriority (units of one tenth)
SelectDecisions(c) ==
    {[character |-> c, response_type |-> "speak", priority |-> p, dialogue |-> "hi", action |-> ""] :
        p \in 0..MaxSelectPriority}
    \cup {[character |-> c, response_type |-> "act", priority |-> p, dialogue |-> "", action |-> "act"] :
        p \in 0..MaxSelectPriority}

\* the lists handed to the selection: at most one decision per character
SelectLists ==
    {{}} \cup {{a} : a \in SelectDecisions("A")} \cup {{b} : b \in SelectDecisions("B")}
    \cup {{a, b} : a \in SelectDecisions("A"), b \in SelectDecisions("B")}

SelectInit ==
    /\ InitTimeline
    /\ InitScheduler
    /\ InitPersistence
    /\ InitStory
    /\ InitRound
    /\ recent = NoQuery
    /\ queried = NoQueries
    /\ InitJudge
    /\ InitScene
    /\ InitAsync
    /\ selection \in {[done |-> FALSE, decisions |-> decs, result |-> NoResult] :
                         decs \in SelectLists}

\* lines 128-142: None for an empty list, else the first after the sort
SelectSpeaker ==
    /\ ~selection.done
    /\ IF selection.decisions = {}
       THEN selection' = [selection EXCEPT !.done = TRUE]
       ELSE \E jitter \in Jitters :
               \E r \in select_speaker_from_decisions(selection.decisions, jitter) :
                   selection' = [selection EXCEPT !.done = TRUE, !.result = r]
    /\ UNCHANGED <<mainVars, persistVars, storyVars, roundVars, recent, queried, judgeVars,
                   sceneVars, asyncVars>>

SelectNext == SelectSpeaker

SelectSpec == SelectInit /\ [][SelectNext]_vars

\* ------------------------------------------------ the scene generators
\* SceneManager.generate_scene_event and
\* NarratorManager.generate_transition_narrative: the history each keeps and
\* the part of it each puts into its request

\* s[1:-1]
slice_1_to_minus_1(s) == IF Len(s) <= 2 THEN <<>> ELSE SubSeq(s, 2, Len(s) - 1)

\* sceneManager.py lines 93-99: the PREVIOUS EVENTS of the prompt
events_to_show(recent_events) ==
    IF Len(recent_events) > 1
    THEN slice_from_minus(slice_1_to_minus_1(recent_events), 3)
    ELSE <<>>

\* sceneManager.py lines 155-162: append, then drop the oldest injected one
\* when more than six items are kept
track_event(recent_events, event_desc) ==
    LET appended == Append(recent_events, event_desc)
    IN  IF Len(appended) > 6
        THEN <<appended[1]>> \o SubSeq(appended, 3, Len(appended))
        ELSE appended

\* narratorManager.py lines 163-167: the PREVIOUS DESCRIPTIONS of the prompt
recent_descs(descs) == IF descs = <<>> THEN <<>> ELSE slice_from_minus(descs, 3)

\* narratorManager.py lines 216-220: append, keep the last five
store_description(descs, description) ==
    LET appended == Append(descs, description)
    IN  IF Len(appended) > 5 THEN Tail(appended) ELSE appended

\* a scene manager with or without a scene, nothing generated yet
SceneInit ==
    /\ InitTimeline
    /\ InitScheduler
    /\ InitPersistence
    /\ InitStory
    /\ InitRound
    /\ recent = NoQuery
    /\ queried = NoQueries
    /\ InitJudge
    /\ selection = NoSelection
    /\ current_scene \in {NoScene, [exists |-> TRUE, recent_events |-> <<InitialDescription>>]}
    /\ previous_descriptions = <<>>
    /\ scene_request = NoRequest
    /\ scene_calls = 0
    /\ InitAsync

\* what the steps of the scene generators leave alone
sceneFrame == <<mainVars, persistVars, storyVars, roundVars, recent, queried, judgeVars,
                selection, asyncVars>>

\* SceneManager.generate_scene_event; answered: the model call and the
\* parsing of its answer went through
scene_manager_generate_scene_event(answered) ==
    /\ scene_calls < MaxSceneCalls
    /\ IF ~current_scene.exists
       THEN \* line 81: "The room remains quiet.", nothing is asked
            /\ scene_request' = NoRequest
            /\ UNCHANGED <<current_scene, scene_calls>>
       ELSE /\ scene_request' = [made |-> TRUE, by |-> "SceneManager",
                                 before |-> current_scene.recent_events,
                                 negative |-> events_to_show(current_scene.recent_events)]
            /\ scene_calls' = scene_calls + 1
            /\ current_scene' =
                  IF answered
                  THEN [current_scene EXCEPT
                           !.recent_events = track_event(@, scene_calls + 1)]
                  ELSE \* lines 166-168: the fallback event is returned, not tracked
                       current_scene
    /\ UNCHANGED <<sceneFrame, previous_descriptions>>

\* NarratorManager.generate_transition_narrative
generate_transition_narrative(answered) ==
    /\ scene_calls < MaxSceneCalls
    /\ scene_request' = [made |-> TRUE, by |-> "NarratorManager",
                         before |-> previous_descriptions,
                         negative |-> recent_descs(previous_descriptions)]
    /\ scene_calls' = scene_calls + 1
    /\ previous_descriptions' =
          IF answered
          THEN store_description(previous_descriptions, scene_calls + 1)
          ELSE previous_descriptions
    /\ UNCHANGED <<sceneFrame, current_scene>>

SceneEvents == \E answered \in BOOLEAN : scene_manager_generate_scene_event(answered)
Narratives == \E answered \in BOOLEAN : generate_transition_narrative(answered)

SceneNext == SceneEvents \/ Narratives

SceneSpec == SceneInit /\ [][SceneNext]_vars

\* ------------------------------------------------ the asynchronous conversation
\* AsyncConversationManager: one listening thread per AI character, and the
\* main thread that adds the player's messages, sets moods and drains the
\* queue.  Every step of a thread is one action; the sleeps and the cooldown
\* bound a thread's pace from below only, so any interleaving can occur.

\* what the steps of the asynchronous conversation leave alone
asyncFrame == <<mainVars, persistVars, storyVars, roundVars, recent, queried, judgeVars,
                selection, sceneVars>>

\* lines 95-121: the top of the listening loop up to the decision call.
\* elapsed: five seconds have passed since last_spoke_time
Listen(c, elapsed) ==
    /\ listener[c].at = "sleep"
    /\ IF is_silent[c] \/ scene_messages = <<>> \/ (listener[c].cooling /\ ~elapsed)
       THEN \* lines 100-101, 108-109, 112-115: continue
            UNCHANGED listener
       ELSE IF scene_messages[Len(scene_messages)] = c
       THEN \* lines 118-121: it spoke last, the cooldown starts again
            listener' = [listener EXCEPT ![c].cooling = TRUE]
       ELSE \* line 145: decide_to_speak_with_timing is called on the snapshot
            listener' = [listener EXCEPT ![c].at = "deciding"]
    /\ UNCHANGED <<asyncFrame, scene_messages, pending_responses, is_silent>>

\* lines 145-166: the decision call returns; a message is put on the queue
Decide(c, wants_to_speak) ==
    /\ listener[c].at = "deciding"
    /\ IF wants_to_speak
       THEN /\ Len(pending_responses) < MaxPending
            /\ pending_responses' = Append(pending_responses, c)
            /\ listener' = [listener EXCEPT ![c] = [at |-> "sleep", cooling |-> TRUE]]
       ELSE /\ listener' = [listener EXCEPT ![c].at = "sleep"]
            /\ UNCHANGED pending_responses
    /\ UNCHANGED <<asyncFrame, scene_messages, is_silent>>

\* AsyncConversationManager.add_player_message
async_add_player_message ==
    /\ Len(scene_messages) < MaxAsyncMessages
    /\ scene_messages' = Append(scene_messages, Player)
    /\ UNCHANGED <<asyncFrame, pending_responses, is_silent, listener>>

\* process_ai_response, lines 227-231: the message is created and added
messages_after_response(msgs, c) == Append(msgs, c)

\* main loop: get_pending_ai_response, then process_ai_response
process_pending_response ==
    /\ pending_responses # <<>>
    /\ Len(scene_messages) < MaxAsyncMessages
    /\ scene_messages' = messages_after_response(scene_messages, Head(pending_responses))
    /\ pending_responses' = Tail(pending_responses)
    /\ UNCHANGED <<asyncFrame, is_silent, listener>>

\* update_character_emotional_state(name, mood, reason, is_silent)
update_character_emotional_state(c, silent) ==
    /\ is_silent' = [is_silent EXCEPT ![c] = silent]
    /\ UNCHANGED <<asyncFrame, scene_messages, pending_responses, listener>>

Listens == \E c \in Characters, elapsed \in BOOLEAN : Listen(c, elapsed)
Decides == \E c \in Characters, wants_to_speak \in BOOLEAN : Decide(c, wants_to_speak)
MoodUpdates == \E c \in Characters, silent \in BOOLEAN : update_character_emotional_state(c, silent)

AsyncInit ==
    /\ InitTimeline
    /\ InitScheduler
    /\ InitPersistence
    /\ InitStory
    /\ InitRound
    /\ recent = NoQuery
    /\ queried = NoQueries
    /\ InitJudge
    /\ selection = NoSelection
    /\ InitScene
    /\ InitAsync

AsyncNext ==
    \/ Listens
    \/ Decides
    \/ async_add_player_message
    \/ process_pending_response
    \/ MoodUpdates

AsyncSpec == AsyncInit /\ [][AsyncNext]_vars

\* ------------------------------------------------ the objective evaluator
\* TurnManager._evaluate_objectives_with_judge on its own, for a story
\* manager that has a story.  The Story methods it calls are given by the
\* specification of the story: current_objective_index only grows and stops
\* at the number of objectives, where the story is complete.

\* is_story_complete: the index has reached the number of objectives
is_story_complete(st) == st.current_objective_index >= st.n

\* advance_story_objective: the index moves on by one and stops at the number
\* of objectives; the result tells whether there is a next objective
advance_story_objective(st) ==
    [story |-> [st EXCEPT !.current_objective_index =
                             IF st.current_objective_index + 1 <= st.n
                             THEN st.current_objective_index + 1
                             ELSE st.n],
     advanced |-> st.current_objective_index + 1 < st.n]

\* what the judge can say about one character: nothing, or a status with or
\* without an objective text
JudgeUpdates ==
    {[status |-> "absent", objective |-> None]}
    \cup {[status |-> st, objective |-> o] :
            st \in {"assigned", "completed", "continuing", "unknown"}, o \in {None, "new"}}

\* evaluate_and_assign_objectives: the answers the judge can give
JudgeResults ==
    [character_updates : [Characters -> JudgeUpdates], story_objective_complete : BOOLEAN]

\* lines 441-468: the objective of one character after its update
objective_after_update(cur, u) ==
    IF u.status \in {"assigned", "completed"} THEN u.objective
    ELSE IF u.status = "continuing" /\ u.objective # None THEN u.objective
    ELSE cur

\* lines 429-496: the story and the objectives after the judge has answered
evaluate_objectives_with_judge(st, objs, active, res) ==
    LET updated == [c \in Characters |->
                      IF c \in active
                      THEN objective_after_update(objs[c], res.character_updates[c])
                      ELSE objs[c]]
    IN  IF res.story_objective_complete
        THEN LET adv == advance_story_objective(st)
             IN  [story |-> adv.story,
                  current_objective |->
                      IF adv.advanced
                      THEN [c \in Characters |-> IF c \in active THEN None ELSE updated[c]]
                      ELSE updated]
        ELSE [story |-> st, current_objective |-> updated]

\* the stories the evaluator can meet
StoriesWithObjectives ==
    UNION {{[exists |-> TRUE, n |-> n, current_objective_index |-> i] : i \in 0..n} :
              n \in 1..MaxObjectives}

\* a session in which some characters have left, with a story at any point
\* of its course and objectives left by earlier evaluations
JudgeInit ==
    /\ InitScheduler
    /\ InitPersistence
    /\ InitStory
    /\ InitRound
    /\ recent = NoQuery
    /\ queried = NoQueries
    /\ InitMore
    /\ \E exits \in {<<>>,
                      <<[character |-> "A", description |-> "d"]>>,
                      <<[character |-> "B", description |-> "d"]>>,
                      <<[character |-> "A", description |-> "d"],
                        [character |-> "B", description |-> "d"]>>} :
          LET st == process_movements(
                        Movements(<<>>, exits), Characters,
                        [tl |-> Timeline(<<InitialScene>>, <<Player, "A", "B">>,
                                         <<Player, "A", "B">>),
                         mem |-> [c \in Characters |-> <<>>]])
          IN  /\ events = st.tl.events
              /\ participants = st.tl.participants
              /\ current_participants = st.tl.current_participants
              /\ memory = st.mem
    /\ story_objectives \in {NoObjectives} \cup StoriesWithObjectives
    /\ current_objective \in [Characters -> {None, "old"}]
    /\ judged = NoJudgement

\* one run of _evaluate_objectives_with_judge
EvaluateObjectives ==
    /\ ~judged.done
    /\ LET active == active_characters(characters, CurTimeline)
           before == story_objectives.current_objective_index
       IN  IF \/ ~story_objectives.exists
              \/ is_story_complete(story_objectives)
              \/ active = {}
           THEN \* lines 418-433: the early returns
                /\ judged' = [done |-> TRUE, asked |-> FALSE,
                              story_objective_complete |-> FALSE, index_before |-> before]
                /\ UNCHANGED <<story_objectives, current_objective>>
           ELSE \E res \in JudgeResults :
                    LET after == evaluate_objectives_with_judge(
                                     story_objectives, current_objective, active, res)
                    IN  /\ story_objectives' = after.story
                        /\ current_objective' = after.current_objective
                        /\ judged' = [done |-> TRUE, asked |-> TRUE,
                                      story_objective_complete |-> res.story_objective_complete,
                                      index_before |-> before]
    /\ UNCHANGED <<mainVars, persistVars, storyVars, roundVars, recent, queried, moreVars>>

JudgeNext == EvaluateObjectives

JudgeSpec == JudgeInit /\ [][JudgeNext]_vars

\* ------------------------------------------------ one round, task by task
\* select_next_speaker again, with _collect_speaking_decisions taken apart:
\* the futures are submitted, each worker returns, raises or never comes back,
\* the as_completed loop consumes the finished futures one by one, and the
\* winner is selected after the with-block has been left.

\* how the model call inside a decision can fail
FailureKinds == {"timeout", "quota", "unparseable"}

\* CharacterManager.decide_to_speak, lines 502-512: what the except branches
\* return for a failed call, as (response_type, priority, reasoning, ...)
\* with wants_to_speak = False read as "silent"
decide_to_speak(kind) ==
    [response_type |-> "silent",
     priority |-> 0,
     reasoning |-> IF kind = "unparseable" THEN "JSON parsing failed"
                   ELSE IF kind = "quota" THEN "API_QUOTA_EXCEEDED"
                   ELSE "Error: APITimeoutError",
     dialogue |-> "",
     action |-> ""]

\* what a worker can come back with: an answer of the oracle, or what
\* decide_to_speak makes of a failed call
TaskResults ==
    {[call |-> "answered", answer |-> a] : a \in OracleAnswers}
    \cup {[call |-> k, answer |-> decide_to_speak(k)] : k \in FailureKinds}

\* line 83-84: one future per character of self.characters (the active ones)
RoundSubmit ==
    /\ pc = "loop"
    /\ LoopCondition(consecutive_count, max_turns)
    /\ last_round' = NoRound
    /\ round_decisions' = {}
    /\ LET active == active_characters(characters, CurTimeline)
       IN  IF events = <<>>
           THEN /\ result' = NoResult
                /\ n_decisions' = 0
                /\ pc' = "body"
                /\ UNCHANGED <<characters, outcome, tasks>>
           ELSE IF active = {}
           THEN /\ characters' = active
                /\ outcome' = "raised"
                /\ pc' = "idle"
                /\ UNCHANGED <<n_decisions, result, tasks>>
           ELSE /\ tasks' = [c \in Characters |->
                                IF c \in active
                                THEN [status |-> "running", call |-> "none", answer |-> NoAnswer]
                                ELSE NoTask]
                /\ pc' = "collect"
                /\ UNCHANGED <<characters, outcome, n_decisions, result>>
    /\ queried' = IF events = <<>> \/ active_characters(characters, CurTimeline) = {}
                  THEN NoQueries
                  ELSE [present |-> present_characters(CurTimeline),
                        asked |-> decision_calls(active_characters(characters, CurTimeline))]
    /\ UNCHANGED <<timelineVars, memory, consecutive_silence_rounds, saved_len,
                   max_turns, responses, consecutive_count, last_speaker, call_start_len,
                   judge_calls, persistVars, storyVars, recent, judgeVars, moreVars>>

\* what a step of the worker pool leaves alone
roundFrame == <<mainVars, persistVars, storyVars, extraVars>>

\* a worker finishes: get_character_decision returns or raises
TaskReturn(c) ==
    /\ pc = "collect"
    /\ tasks[c].status = "running"
    /\ \E r \in TaskResults :
          tasks' = [tasks EXCEPT ![c] = [status |-> "done", call |-> r.call, answer |-> r.answer]]
    /\ UNCHANGED <<roundFrame, round_decisions>>

\* the model call of a worker never completes: nothing in the code bounds it
\* (Config.RESPONSE_TIMEOUT is not used, as_completed has no timeout)
TaskHang(c) ==
    /\ pc = "collect"
    /\ tasks[c].status = "running"
    /\ tasks' = [tasks EXCEPT ![c].status = "hung"]
    /\ UNCHANGED <<roundFrame, round_decisions>>

\* variant: an exception of one future drops what was collected so far
decisions_after_exception_abort(decs) == {}

\* lines 104-106: the except branch logs and goes on
decisions_after_exception(decs) == decs

\* lines 88-106: the as_completed loop takes one finished future
Consume(c) ==
    /\ pc = "collect"
    /\ tasks[c].status = "done"
    /\ tasks' = [tasks EXCEPT ![c].status = "consumed"]
    /\ round_decisions' =
          IF tasks[c].answer.response_type = "exception"
          THEN decisions_after_exception(round_decisions)
          ELSE round_decisions \cup collect_speaking_decisions([x \in {c} |-> tasks[c].answer])
    /\ UNCHANGED roundFrame

\* variant: the winner is selected as soon as one future has been consumed
AllSettled_any(t) == \E c \in Characters : t[c].status = "consumed"

\* leaving the with-block: every submitted future has finished and was consumed
AllSettled(t) == \A c \in Characters : t[c].status \in {"none", "consumed"}

\* lines 250-259: the decisions are back, the winner is selected
RoundSelect ==
    /\ pc = "collect"
    /\ AllSettled(tasks)
    /\ IF round_decisions = {}
       THEN /\ result' = NoResult
            /\ n_decisions' = 0
       ELSE /\ \E jitter \in Jitters :
                  result' \in select_speaker_from_decisions(round_decisions, jitter)
            /\ n_decisions' = Cardinality(round_decisions)
    /\ pc' = "body"
    /\ tasks' = [c \in Characters |-> NoTask]
    /\ round_decisions' = {}
    /\ UNCHANGED <<timelineVars, memory, characters, consecutive_silence_rounds, saved_len,
                   max_turns, responses, consecutive_count, last_speaker, call_start_len,
                   last_round, outcome, judge_calls, persistVars, storyVars, extraVars>>

\* the calls under which the rounds are taken apart: no scene, at most one exit
RoundCall ==
    \E arg \in 1..MaxTurnsArg,
       exits \in {<<>>, <<[character |-> "A", description |-> "d"]>>} :
        process_ai_responses(arg, FALSE, <<>>, exits)

Returns == \E c \in Characters : TaskReturn(c)
Hangs == \E c \in Characters : TaskHang(c)
Consumes == \E c \in Characters : Consume(c)

RoundNext ==
    \/ RoundCall
    \/ RoundSubmit
    \/ Returns
    \/ Hangs
    \/ Consumes
    \/ RoundSelect
    \/ LoopExit
    \/ Body
    \/ Finish

RoundSpec == Init /\ [][RoundNext]_vars

\* the interpreter and the worker threads keep running; a call that hangs is
\* the one thing that need not happen
RoundFairSpec ==
    RoundSpec /\ WF_vars(RoundSubmit) /\ WF_vars(Returns) /\ WF_vars(Consumes)
              /\ WF_vars(RoundSelect) /\ WF_vars(LoopExit) /\ WF_vars(Body) /\ WF_vars(Finish)

TypeOK ==
    /\ pc \in {"idle", "loop", "collect", "body", "finish"}
    /\ consecutive_silence_rounds \in 0..(SILENCE_THRESHOLD - 1)
    /\ characters \subseteq Characters
    /\ outcome \in {"none", "returned", "raised"}

\* ===================================================== properties
\* a Message or Action authored by an AI character
AgentEvent(e) == e.kind \in {"Message", "Action"} /\ e.character \in Characters

\* positions of the agent events the running call has appended
AppliedThisCall == {i \in (call_start_len + 1)..Len(events) : AgentEvent(events[i])}

\* the old event sequence is a prefix of the new one
IsPrefix(s, t) == Len(s) <= Len(t) /\ SubSeq(t, 1, Len(s)) = s

\* C1: a round of the loop (select_next_speaker, then the loop body) appends at
\* most one event to the timeline, and exactly one, the winner's, when the
\* round applies a winner
C1_RoundAppendsAtMostOne ==
    [][/\ pc = "loop" => events' = events
       /\ pc = "body" =>
            /\ IsPrefix(events, events')
            /\ Len(events') <= Len(events) + 1
            /\ responses' # responses =>
                 /\ Len(events') = Len(events) + 1
                 /\ AgentEvent(events'[Len(events')])
                 /\ events'[Len(events')].character = result.character]_vars

\* a round has just applied the second agent event of one call
C1_Witness ==
    /\ pc = "loop"
    /\ last_round.kind = "applied"
    /\ Len(responses) = 2
    /\ Len(events) = call_start_len + 2

\* C2: the same agent is never the applied winner of two consecutive resolved
\* rounds with no other event applied between them: no two neighbouring
\* timeline events are agent events of the same character
C2_NoConsecutiveSameWinner ==
    \A i \in 1..(Len(events) - 1) :
        ~(/\ AgentEvent(events[i])
          /\ AgentEvent(events[i + 1])
          /\ events[i].character = events[i + 1].character)

\* C3: every call of process_ai_responses that has entered its loop hands
\* control back to the caller
C3_CallTerminates == (pc = "loop") ~> (pc = "idle")

\* C4: process_ai_responses never raises
C4_NeverRaises == outcome # "raised"

\* C5: a round that applies no agent event, because nobody was selected or
\* because the selected character is the one applied last, leaves the events
\* unchanged and adds one to consecutive_silence_rounds (while that stays
\* below the threshold)
C5_UnresolvedRoundIncrements ==
    [][(/\ pc = "body"
        /\ result = NoResult \/ IsRepeatSpeaker(last_speaker, result)
        /\ consecutive_silence_rounds + 1 < SILENCE_THRESHOLD)
       => (/\ events' = events
           /\ consecutive_silence_rounds' = consecutive_silence_rounds + 1)]_vars

\* C6: the round in which the count of unresolved rounds reaches the
\* threshold appends exactly one Scene and puts the counter back to 0
C6_StallInjectsOneScene ==
    [][(/\ pc = "body"
        /\ result = NoResult
        /\ StallDetected(consecutive_silence_rounds))
       => (/\ Len(events') = Len(events) + 1
           /\ events'[Len(events')].kind = "Scene"
           /\ consecutive_silence_rounds' = 0)]_vars

\* C7: consecutive_silence_rounds is 0 right after every round that applies
\* an agent event and right after every round that injects a Scene
C7_CounterResetOnEvent ==
    [][(pc = "body" /\ (responses' # responses \/ Len(events') > Len(events)))
       => consecutive_silence_rounds' = 0]_vars

\* a round has applied an agent event and the counter is 0
C7_Witness ==
    /\ pc = "loop"
    /\ last_round.kind = "applied"
    /\ Len(events) > call_start_len
    /\ consecutive_silence_rounds = 0

C9_AtMostMaxTurnsApplied ==
    pc # "idle" => Cardinality(AppliedThisCall) <= max_turns

\* a call is about to return having applied exactly max_turns = 2 agent events
C9_Witness ==
    /\ pc = "finish"
    /\ max_turns = 2
    /\ Cardinality(AppliedThisCall) = 2

\* C10: when the winner's response is invalid the round appends nothing and
\* counts as unresolved: consecutive_silence_rounds grows by one
C10_InvalidWinnerCountsAsUnresolved ==
    [][(/\ pc = "body"
        /\ result # NoResult
        /\ ~IsRepeatSpeaker(last_speaker, result)
        /\ IsInvalidResponse(result)
        /\ consecutive_silence_rounds + 1 < SILENCE_THRESHOLD)
       => (/\ events' = events
           /\ responses' = responses
           /\ consecutive_silence_rounds' = consecutive_silence_rounds + 1)]_vars

\* current_participants after the first i events of evs, replayed with
\* add_event from the participant list the timeline was created with
RECURSIVE presence_after(_, _)
presence_after(evs, i) ==
    IF i = 0 THEN <<Player, "A", "B">>
    ELSE current_participants_after(
             [current_participants |-> presence_after(evs, i - 1)], evs[i])

\* C11: every event in a character's memory is a timeline event, is there
\* exactly once, and the memory keeps the order of the timeline
C11_BroadcastOnceInOrder ==
    \A c \in Characters :
        /\ \A k \in 1..Len(memory[c]) :
              /\ memory[c][k].id \in 1..Len(events)
              /\ memory[c][k] = events[memory[c][k].id]
        /\ \A i, j \in 1..Len(memory[c]) :
              i < j => memory[c][i].id < memory[c][j].id

ExitedNotReentered(c, evs) ==
    \E i \in 1..Len(evs) :
        /\ evs[i].kind = "CharacterExit" /\ evs[i].character = c
        /\ \A j \in (i + 1)..Len(evs) :
              ~(evs[j].kind = "CharacterEntry" /\ evs[j].character = c)

\* C13: between a character's exit and its next entry no step changes its
\* memory, whatever the step appends to the timeline: a step that starts
\* after c's exit and appends no CharacterEntry of c leaves memory[c] alone
C13_ExitedMemoryFrozen ==
    [][\A c \in Characters :
          (/\ ExitedNotReentered(c, events)
           /\ IsPrefix(events, events')
           /\ \A j \in (Len(events) + 1)..Len(events') :
                 ~(events'[j].kind = "CharacterEntry" /\ events'[j].character = c))
          => memory'[c] = memory[c]]_vars

\* number of positions of s holding x
Occurrences(x, s) == Cardinality({i \in 1..Len(s) : s[i] = x})

\* C14: right after a CharacterExit the character is out of
\* current_participants, right after a CharacterEntry it is in; through all of
\* it participants keeps exactly one occurrence of every character and
\* current_participants never holds a name twice
C14_ExitEntryParticipants ==
    /\ current_participants = presence_after(events, Len(events))
    /\ \A i \in 1..Len(events) :
          /\ events[i].kind = "CharacterExit"
                => ~InList(events[i].character, presence_after(events, i))
          /\ events[i].kind = "CharacterEntry"
                => InList(events[i].character, presence_after(events, i))
    /\ \A c \in Characters \cup {Player} :
          /\ Occurrences(c, participants) = 1
          /\ Occurrences(c, current_participants) <= 1

\* A has left and come back: it is present again and listed once
C14_Witness ==
    /\ \E i, k \in 1..Len(events) :
          /\ i < k
          /\ events[i].kind = "CharacterExit" /\ events[i].character = "A"
          /\ events[k].kind = "CharacterEntry" /\ events[k].character = "A"
    /\ InList("A", current_participants)
    /\ Occurrences("A", participants) = 1

\* C15: a timeline saved and loaded back is the timeline that was saved:
\* equal events in equal order, equal participants and current_participants
C15_SaveLoadRoundTrip ==
    persist_pc = "loaded" => loaded = CurTimeline

\* C16: the story's current index never decreases and never exceeds the
\* number of beats, for all stories including the one without beats
C16_StoryIndexMonotoneBounded ==
    /\ [](story.current_beat_index \in 0..Len(story.beats))
    /\ [][story'.current_beat_index >= story.current_beat_index]_vars

\* a story of MaxBeats beats was advanced to its last beat and then once more
C16_Witness ==
    /\ story.exists
    /\ Len(story.beats) = MaxBeats
    /\ story.current_beat_index = MaxBeats - 1
    /\ story.completed
    /\ advance_result = "False"

\* the characters whose consumed future carried a decision to speak or act
RoundCandidates ==
    {c \in Characters :
        /\ tasks[c].status = "consumed"
        /\ tasks[c].answer.response_type \in {"speak", "act"}
        /\ tasks[c].answer.reasoning # "API_QUOTA_EXCEEDED"}

\* the characters whose decision call failed: the worker raised, or the call
\* inside it timed out, hit the quota or returned unparseable text
RoundFailed ==
    {c \in Characters :
        /\ tasks[c].status = "consumed"
        /\ tasks[c].answer.response_type = "exception" \/ tasks[c].call \in FailureKinds}

\* C17: when the winner of a round is selected, the candidates are exactly the
\* characters that answered speak or act, whatever happened to the calls of
\* the others; a character whose call failed is no candidate and cannot win
C17_FailedAgentAbstains ==
    [][(pc = "collect" /\ pc' = "body")
       => (/\ {d.character : d \in round_decisions} = RoundCandidates
           /\ \A d \in round_decisions :
                 /\ d.response_type = tasks[d.character].answer.response_type
                 /\ d.priority = tasks[d.character].answer.priority
                 /\ d.dialogue = tasks[d.character].answer.dialogue
                 /\ d.action = tasks[d.character].answer.action
           /\ n_decisions' = Cardinality(RoundCandidates)
           /\ RoundCandidates # {} => result'.character \in RoundCandidates
           /\ result'.character \notin RoundFailed)]_vars

\* the worker of A raised, B answered speak: B is the one candidate of the
\* round and the selection can go ahead
C17_Witness ==
    /\ pc = "collect"
    /\ AllSettled(tasks)
    /\ tasks["A"].answer.response_type = "exception"
    /\ tasks["B"].answer.response_type = "speak"
    /\ {d.character : d \in round_decisions} = {"B"}

\* C18: while a decision task of the round is still running, no step selects
\* a winner or changes the timeline, the participant lists or a memory
C18_SingleWriterAfterSettle ==
    [][(\E c \in Characters : tasks[c].status \in {"running", "hung"})
       => (/\ events' = events
           /\ participants' = participants
           /\ current_participants' = current_participants
           /\ memory' = memory
           /\ result' = NoResult
           /\ pc' = "collect")]_vars

\* a round with two finished decision tasks has selected and applied its winner
C18_Witness ==
    /\ pc = "loop"
    /\ last_round.kind = "applied"
    /\ last_round.candidates = 2
    /\ \A c \in Characters : tasks[c] = NoTask

\* C19: a round that is collecting decisions settles, also when the call of
\* one character never completes
C19_HungCallRoundSettles == (pc = "collect") ~> (pc # "collect")

\* C20: a decision whose model call failed does not reach the scheduler as a
\* silent decision with priority 0
C20_FailureNotSilent ==
    \A c \in Characters :
        tasks[c].call \in FailureKinds
        => ~(tasks[c].answer.response_type = "silent" /\ tasks[c].answer.priority = 0)

\* the smaller of two numbers
Min(a, b) == IF a < b THEN a ELSE b

\* C21: get_recent_events returns the last min(n, m) of the m events that
\* pass the filter, in timeline order
C21_RecentIsLastMatching ==
    recent.done =>
        LET matching == filter_events(events, recent.event_type)
            m == Len(matching)
            k == Min(recent.n, m)
        IN  recent.result = SubSeq(matching, m - k + 1, m)

\* C22: what one add_event does to the two participant lists, by the kind of
\* the event: Message, Action and CharacterEntry leave the character once in
\* both; a Scene changes neither; a CharacterExit leaves participants as it was
C22_AddEventParticipantsByKind ==
    [][Len(events') = Len(events) + 1 =>
         LET ev == events'[Len(events')]
         IN  /\ ev.kind \in {"Message", "Action", "CharacterEntry"}
                   => /\ Occurrences(ev.character, participants') = 1
                      /\ Occurrences(ev.character, current_participants') = 1
             /\ ev.kind = "Scene"
                   => /\ participants' = participants
                      /\ current_participants' = current_participants
             /\ ev.kind = "CharacterExit"
                   => /\ participants' = participants
                      /\ ~InList(ev.character, current_participants')]_vars

\* C23: no step of the system changes or removes an event: the events before
\* the step are a prefix of the events after it
C23_EventsAppendOnly ==
    [][IsPrefix(events, events')]_vars

\* the player, the meta-narrative step and a scheduler round have each
\* appended an event, and the call has returned
C23_Witness ==
    /\ pc = "idle"
    /\ outcome = "returned"
    /\ \E i, j, k \in 1..Len(events) :
          /\ i < j /\ j < k
          /\ events[i].kind = "Message" /\ events[i].character = Player
          /\ events[j].kind = "CharacterExit"
          /\ AgentEvent(events[k])

\* C24: a response that fails the shape validation (speak without dialogue,
\* act without action) is removed before the winner is selected: whenever a
\* round's decisions hold at least one valid response, the selected winner is
\* a valid one, also when an invalid response has the highest priority.
C24_InvalidRemovedBeforeSelection ==
    [][(/\ pc = "collect"
        /\ pc' = "body"
        /\ \E d \in round_decisions : ~IsInvalidResponse(d))
       => ~IsInvalidResponse(result')]_vars

\* C25: in every collection of decisions, on the scheduler's path and on the
\* HTTP chat path, the decision oracle is asked exactly once for each AI
\* character that is in current_participants and not at all for a character
\* that is absent.
C25_QueriedExactlyThePresent ==
    \A c \in Characters :
        queried.asked[c] = IF c \in queried.present THEN 1 ELSE 0

\* C26: of the events one step appends, every CharacterEntry is for a
\* character that was not in current_participants when it was appended, every
\* CharacterExit is for a character that was, and no character has both an
\* entry and an exit among them.
C26_MovementsMatchPresence ==
    [][\A i \in (Len(events) + 1)..Len(events') :
          LET e == events'[i]
          IN  /\ e.kind = "CharacterEntry"
                    => /\ ~InList(e.character, presence_after(events', i - 1))
                       /\ \A j \in (Len(events) + 1)..Len(events') :
                             ~(/\ events'[j].kind = "CharacterExit"
                               /\ events'[j].character = e.character)
              /\ e.kind = "CharacterExit"
                    => InList(e.character, presence_after(events', i - 1))]_vars

\* C27: every event a step appends to the timeline, on whatever path, is in
\* the memory of every AI character that is in current_participants once the
\* event has been applied.
C27_AppendedEventReachesPresent ==
    [][\A i \in (Len(events) + 1)..Len(events') :
          \A c \in Characters :
              InList(c, presence_after(events', i)) => InList(events'[i], memory'[c])]_vars

\* C29: when process_ai_responses returns, the objective evaluator has been
\* invoked exactly once if the call appended at least one event to the
\* timeline, and not at all if the call appended none.
C29_JudgeInvokedIffEventAppended ==
    [][(pc = "finish" /\ pc' = "idle")
       => judge_calls' = IF Len(events) > call_start_len THEN 1 ELSE 0]_vars

\* C30: the save callback runs after every round that applies an event: when
\* the loop is about to collect the next round's decisions after such a
\* round, the saved timeline holds every event of the timeline.
C30_SavedBeforeNextRound ==
    (/\ pc = "loop"
     /\ LoopCondition(consecutive_count, max_turns)
     /\ last_round.kind = "applied")
        => saved_len = Len(events)

\* C28: when the judge reports the story objective complete, the story index
\* is one higher than before, or at the number of objectives when it would
\* pass it, and no character, present or absent, has a current objective
\* left, also when the completed objective was the last one.
C28_CompletionAdvancesAndClearsAll ==
    (judged.done /\ judged.asked /\ judged.story_objective_complete)
        => /\ story_objectives.current_objective_index =
                  Min(judged.index_before + 1, story_objectives.n)
           /\ \A c \in Characters : current_objective[c] = None

\* C31: on a story with n >= 1 beats, an advance that finds a beat after the
\* current one returns true and moves the index forward by one; the advance
\* that finds none (the n-th from index 0) returns false, marks the story
\* complete and leaves it with no current beat: the index is n and
\* get_current_beat gives none.
C31_AdvanceReachesEnd ==
    [][(story.exists /\ Len(story.beats) >= 1 /\ story' # story)
       => IF story.current_beat_index < Len(story.beats) - 1
          THEN /\ advance_result' = "True"
               /\ story'.current_beat_index = story.current_beat_index + 1
          ELSE /\ advance_result' = "False"
               /\ story'.completed
               /\ story'.current_beat_index = Len(story.beats)
               /\ get_current_beat(story') = None]_vars

\* C32: when one decision's priority exceeds the priority of every other
\* decision on the list by more than twice the jitter bound, that decision
\* is the one selected, whatever jitter is drawn.
C32_JitterKeepsDominant ==
    selection.done
        => \A d \in selection.decisions :
              (\A o \in selection.decisions \ {d} :
                  d.priority - o.priority > 2 * PRIORITY_RANDOMNESS)
                 => selection.result.character = d.character

\* B leads A by three tenths, and B was selected
C32_Witness ==
    /\ selection.done
    /\ \E d, o \in selection.decisions :
          /\ d.character = "B" /\ o.character = "A"
          /\ d.priority - o.priority = 2 * PRIORITY_RANDOMNESS + 1
    /\ selection.result.character = "B"

\* the last k entries of s
LastK(s, k) == IF Len(s) <= k THEN s ELSE SubSeq(s, Len(s) - k + 1, Len(s))

\* C33: every scene request carries the last three descriptions injected
\* before it (all of them when there are fewer), so the most recent one is
\* always among them, and never the initial description; the scene's stored
\* history starts with the initial description and holds at most five
\* injected ones.
C33_RequestCarriesLastInjected ==
    /\ scene_request.made
          => scene_request.negative =
                LastK(IF scene_request.by = "SceneManager"
                      THEN Tail(scene_request.before)
                      ELSE scene_request.before, 3)
    /\ current_scene.exists
          => /\ current_scene.recent_events[1] = InitialDescription
             /\ Len(current_scene.recent_events) <= 6

\* C34: while a call runs and when it returns, the list it returns has one
\* entry for every Message or Action event the call has appended, in the
\* order of the events, each entry naming the event's character and, for a
\* Message, its words; so the list is empty exactly when the call applied no
\* agent event.
C34_ResponsesMatchAppliedEvents ==
    pc # "idle"
        => /\ Len(responses) = Cardinality(AppliedThisCall)
           /\ \A k \in 1..Len(responses) :
                 LET i == responses[k].event_id
                 IN  /\ i \in AppliedThisCall
                     /\ events[i].character = responses[k].character
                     /\ events[i].kind = "Message" => responses[k].message = events[i].content
                     /\ k > 1 => responses[k - 1].event_id < i

\* a call is about to return two entries, for an event of A and one of B
C34_Witness ==
    /\ pc = "finish"
    /\ Len(responses) = 2
    /\ responses[1].character # responses[2].character
    /\ Cardinality(AppliedThisCall) = 2

\* C35: in the asynchronous conversation no two neighbouring messages are
\* by the same AI character, whatever the interleaving of the listening
\* threads and the main thread.
C35_AsyncNoConsecutiveSameCharacter ==
    \A i \in 1..(Len(scene_messages) - 1) :
        scene_messages[i] = scene_messages[i + 1] => scene_messages[i] = Player

\* C36: in the asynchronous conversation no message by a character is added
\* while the character is marked silent, also when its decision call was in
\* flight or its response was waiting in the queue when it was silenced.
C36_SilencedCharacterAddsNothing ==
    [][\A c \in Characters :
          (/\ Len(scene_messages') = Len(scene_messages) + 1
           /\ scene_messages'[Len(scene_messages')] = c)
             => ~is_silent[c]]_vars

\* C37: every event in a character's memory is an event of the current
\* timeline and the memory keeps the timeline's order, in every state,
\* also after reset_conversation.
C37_MemoryWithinTimeline ==
    \A c \in Characters :
        /\ \A k \in 1..Len(memory[c]) :
              /\ memory[c][k].id \in 1..Len(events)
              /\ memory[c][k] = events[memory[c][k].id]
        /\ \A i, j \in 1..Len(memory[c]) :
              i < j => memory[c][i].id <= memory[c][j].id

\* the ids of the events in a memory, in order
MemoryIds(mem) == [k \in 1..Len(mem) |-> mem[k].id]

\* the file the new system loads exists
LoadedFromFile ==
    /\ persist_pc = "loaded"
    /\ conversation_file_path(story_name) \in DOMAIN files
    /\ files[conversation_file_path(story_name)].exists

\* C38: once a saved timeline has been loaded and replayed, every character
\* remembers the same events, in the same order, as the live run had put
\* into its memory.
C38_ReplayRebuildsLiveMemory ==
    LoadedFromFile
        => \A c \in Characters : MemoryIds(loaded_memory[c]) = MemoryIds(memory[c])

\* a list without a repeated name
NoDuplicates(s) == \A i, j \in 1..Len(s) : s[i] = s[j] => i = j

\* the two lists of a timeline fit together
ParticipantsConsistent(tl) ==
    /\ \A i \in 1..Len(tl.current_participants) : InList(tl.current_participants[i], tl.participants)
    /\ NoDuplicates(tl.participants)
    /\ NoDuplicates(tl.current_participants)

C40_RosterRestoredOnEveryExit ==
    characters = Characters

====
